---- MODULE Spec2Model ----
(***************************************************************************)
(* Model of snapd's cloud-init handling (sysconfig/cloudinit.go): the      *)
(* status oracle CloudInitStatus and the restriction engine                *)
(* RestrictCloudInit, acting on the marker files below the global root     *)
(* directory.  cloud-init itself is the environment: its results record    *)
(* status.json is a file that it rewrites at will, and what its executable *)
(* answers to "cloud-init status" is an input of each CloudInitStatus call.*)
(*                                                                         *)
(* The installer configureCloudInit acts at install time on another file   *)
(* system, the target root, and the extractor cloudDatasourcesInUse is a   *)
(* function of one configuration file; each has a specification of its own *)
(* (SpecInstall, SpecExtract), in which the variables of the others rest.  *)
(* A configuration file holds a YAML document, modelled by the fields that *)
(* yaml.Unmarshal reads from it, or text that is not YAML.                 *)
(*                                                                         *)
(* Text is modelled as a sequence of one-character strings, so that the    *)
(* two regular expressions and the Sprintf of the code are computed, not   *)
(* assumed.                                                                *)
(*                                                                         *)
(* The file system does not fail: os.MkdirAll and ioutil.WriteFile return  *)
(* nil, so the only errors are those the code itself raises and those of   *)
(* reading the results record.                                             *)
(***************************************************************************)
EXTENDS Integers, Sequences, FiniteSets, TLC

VARIABLES
    restrictFile,   \* <root>/etc/cloud/cloud.cfg.d/zzzz_snapd.cfg
    disabledFile,   \* <root>/etc/cloud/cloud-init.disabled
    resultsFile,    \* <root>/run/cloud-init/status.json, owned by cloud-init
    restricted,     \* whether some RestrictCloudInit() call has returned a nil error
    ret,            \* what the most recent call returned and did
    configFile,     \* the file that cloudDatasourcesInUse is asked about
    inUse,          \* what the most recent cloudDatasourcesInUse call returned
    gadgetConf,     \* <gadget dir>/cloud.conf
    seedDir,        \* the files of the cloud-init directory of ubuntu-seed
    target,         \* the writable defaults below the target root directory
    installRet,     \* what the most recent configureCloudInit call returned and did
    boot            \* the callers that run CloudInitStatus and then RestrictCloudInit

extractVars == <<configFile, inUse>>

installVars == <<gadgetConf, seedDir, target, installRet>>

vars == <<restrictFile, disabledFile, resultsFile, restricted, ret,
          configFile, inUse, gadgetConf, seedDir, target, installRet, boot>>

----------------------------------------------------------------------------
(* Bounds of the model *)

\* number of bracketed annotations that may follow the datasource name in
\* the v1.datasource field of status.json
MaxAnnotations == 1

\* number of keys under "datasource" and under "reporting" in a document
MaxKeys == 1

\* number of entries of datasource_list in a document
MaxListLen == 2

----------------------------------------------------------------------------
(* Text helpers *)

NL == "\n"

Letters ==
    {"a","b","c","d","e","f","g","h","i","j","k","l","m",
     "n","o","p","q","r","s","t","u","v","w","x","y","z",
     "A","B","C","D","E","F","G","H","I","J","K","L","M",
     "N","O","P","Q","R","S","T","U","V","W","X","Y","Z"}

Digits == {"0","1","2","3","4","5","6","7","8","9"}

\* the character class [a-zA-Z0-9]
IsAlnum(c) == c \in Letters \cup Digits

\* the character class of "." : anything but a newline
IsDot(c) == c # NL

\* s has the literal lit at position i
HasAt(s, lit, i) ==
    /\ i >= 1
    /\ i + Len(lit) - 1 <= Len(s)
    /\ SubSeq(s, i, i + Len(lit) - 1) = lit

\* c is in the character class: "alnum" is [a-zA-Z0-9], "dot" is .
InClass(c, class) == IF class = "alnum" THEN IsAlnum(c) ELSE IsDot(c)

\* the last position of the longest run of characters of the class that
\* starts at position i (i - 1 when the run is empty): a greedy "*"
RunEnd(s, i, class) ==
    CHOOSE j \in (i - 1)..Len(s) :
        /\ \A k \in i..j : InClass(s[k], class)
        /\ (j = Len(s) \/ ~InClass(s[j + 1], class))

Min(S) == CHOOSE x \in S : \A y \in S : x <= y

\* the lines of a text, without their newlines
RECURSIVE Lines(_)
Lines(s) ==
    IF s = <<>> THEN <<>>
    ELSE LET e == RunEnd(s, 1, "dot")
         IN  <<SubSeq(s, 1, e)>> \o
             (IF e + 1 >= Len(s) THEN <<>> ELSE Lines(SubSeq(s, e + 2, Len(s))))

\* fmt.Sprintf of a pattern with a single %s verb
RECURSIVE Sprintf(_, _)
Sprintf(pattern, arg) ==
    IF pattern = <<>> THEN <<>>
    ELSE IF HasAt(pattern, <<"%", "s">>, 1)
         THEN arg \o Sprintf(SubSeq(pattern, 3, Len(pattern)), arg)
         ELSE <<Head(pattern)>> \o Sprintf(Tail(pattern), arg)

\* the characters of the names of files and datasources, in byte order
CharOrder ==
    <<" ", ".", "0","1","2","3","4","5","6","7","8","9",
      "A","B","C","D","E","F","G","H","I","J","K","L","M",
      "N","O","P","Q","R","S","T","U","V","W","X","Y","Z", "_",
      "a","b","c","d","e","f","g","h","i","j","k","l","m",
      "n","o","p","q","r","s","t","u","v","w","x","y","z">>

Ord(c) == CHOOSE i \in 1..Len(CharOrder) : CharOrder[i] = c

LowerCase ==
    <<"a","b","c","d","e","f","g","h","i","j","k","l","m",
      "n","o","p","q","r","s","t","u","v","w","x","y","z">>

UpperCase ==
    <<"A","B","C","D","E","F","G","H","I","J","K","L","M",
      "N","O","P","Q","R","S","T","U","V","W","X","Y","Z">>

\* ToUpperChar that leaves every character as it is
ToUpperChar_Identity(c) == c

ToUpperChar(c) ==
    IF \E i \in 1..Len(LowerCase) : LowerCase[i] = c
    THEN UpperCase[CHOOSE i \in 1..Len(LowerCase) : LowerCase[i] = c]
    ELSE c

\* strings.ToUpper
ToUpper(s) == [i \in 1..Len(s) |-> ToUpperChar(s[i])]

\* a < b for two Go strings: the order of their bytes
StringLess(a, b) ==
    \E k \in 1..Len(b) :
        /\ k - 1 <= Len(a)
        /\ \A j \in 1..(k - 1) : a[j] = b[j]
        /\ (k > Len(a) \/ Ord(a[k]) < Ord(b[k]))

\* sort.Strings of the keys of a map
RECURSIVE SortStrings(_)
SortStrings(S) ==
    IF S = {} THEN <<>>
    ELSE LET least == CHOOSE x \in S : \A y \in S \ {x} : StringLess(x, y)
         IN  <<least>> \o SortStrings(S \ {least})

\* strings.HasPrefix and strings.HasSuffix
HasPrefix(s, prefix) == HasAt(s, prefix, 1)

HasSuffix(s, suffix) == HasAt(s, suffix, Len(s) - Len(suffix) + 1)

\* a Go slice: nil, or the items it holds
NilSlice == [nil |-> TRUE, items |-> <<>>]

Slice(items) == [nil |-> FALSE, items |-> items]

----------------------------------------------------------------------------
(* Files *)

NoFile == [exists |-> FALSE, data |-> <<>>]

File(data) == [exists |-> TRUE, data |-> data]

\* osutil.FileExists
FileExists(f) == f.exists

\* ioutil.WriteFile: creates the file or replaces its content
WriteFile(f, data) == File(data)

\* The results record as cloud-init leaves it: absent, not JSON at all, or a
\* JSON object with or without the v1.datasource field.
NoResults      == [exists |-> FALSE, json |-> FALSE, hasDatasource |-> FALSE, datasource |-> <<>>]
GarbageResults == [exists |-> TRUE,  json |-> FALSE, hasDatasource |-> FALSE, datasource |-> <<>>]
EmptyResults   == [exists |-> TRUE,  json |-> TRUE,  hasDatasource |-> FALSE, datasource |-> <<>>]
Results(raw)   == [exists |-> TRUE,  json |-> TRUE,  hasDatasource |-> TRUE,  datasource |-> raw]

\* A cloud-config document: the keys of its "datasource" and "reporting"
\* maps and its datasource_list, which may be missing
CloudConfig(datasource, reporting, hasList, list) ==
    [yaml |-> TRUE, Datasource |-> datasource, Reporting |-> reporting,
     hasDatasourceList |-> hasList, DatasourceList |-> list]

\* text that yaml.Unmarshal rejects
NotYaml ==
    [yaml |-> FALSE, Datasource |-> {}, Reporting |-> {},
     hasDatasourceList |-> FALSE, DatasourceList |-> <<>>]

----------------------------------------------------------------------------
(* Constants of the code *)

CloudInitDisabledPermanently == 0
CloudInitRestrictedBySnapd   == 1
CloudInitUntriggered         == 2
CloudInitDone                == 3
CloudInitEnabled             == 4
CloudInitNotFound            == 5
CloudInitErrored             == 6

CloudInitStates == CloudInitDisabledPermanently..CloudInitErrored

DataSourceLit == <<"D", "a", "t", "a", "S", "o", "u", "r", "c", "e">>
StatusLit     == <<"s", "t", "a", "t", "u", "s", ":", " ">>

nocloudRestrictYaml ==
    <<"d", "a", "t", "a", "s", "o", "u", "r", "c", "e", "_", "l", "i", "s", "t", ":", " ", "[", "N", "o", "C", "l", "o", "u", "d", "]", "\n">> \o
    <<"d", "a", "t", "a", "s", "o", "u", "r", "c", "e", ":", "\n">> \o
    <<" ", " ", "N", "o", "C", "l", "o", "u", "d", ":", "\n">> \o
    <<" ", " ", " ", " ", "f", "s", "_", "l", "a", "b", "e", "l", ":", " ", "n", "u", "l", "l", "\n">> \o
    <<"m", "a", "n", "u", "a", "l", "_", "c", "a", "c", "h", "e", "_", "c", "l", "e", "a", "n", ":", " ", "t", "r", "u", "e", "\n">>

genericCloudRestrictYamlPattern == <<"d", "a", "t", "a", "s", "o", "u", "r", "c", "e", "_", "l", "i", "s", "t", ":", " ", "[", "%", "s", "]", "\n">>

NoCloud == <<"N", "o", "C", "l", "o", "u", "d">>
None    == <<"N", "o", "n", "e">>
Ec2     == <<"E", "c", "2">>

\* localDatasources without None
localDatasources_OnlyNoCloud == <<NoCloud>>

localDatasources == <<NoCloud, None>>

\* strutil.ListContains
ListContains(list, str) == \E i \in 1..Len(list) : list[i] = str

\* errors, by their message (NoErr is the nil error)
NoErr                == "nil"
ErrAlreadyRestricted == "cannot restrict cloud-init: already restricted"
ErrAlreadyDisabled   == "cannot restrict cloud-init: already disabled"
ErrActive            == "cannot restrict cloud-init in error or enabled state"
ErrReadFile          == "open: no such file or directory"
ErrUnmarshal         == "yaml: unmarshal errors"
ErrMissingTargetDir  == "unable to configure cloud-init, missing target dir"
ErrUnknownGrade      == "internal error: unknown model assertion grade"
ErrOpen              == "open /run/cloud-init/status.json: no such file or directory"
ErrDecode            == "json: cannot decode status.json"
ErrMissingDatasource == "cloud-init error: missing datasource from status.json"
ErrDatasourceFormat  == "cloud-init error: unexpected datasource format"
ErrCommand           == "cloud-init status: exit status 1"
ErrInvalidOutput     == "invalid cloud-init output"

----------------------------------------------------------------------------
(* The two regular expressions *)

\* datasourceReFind with the group taking the rest of the line: ([^\n]+)
datasourceReFind_KeepsSuffix(s) ==
    LET starts == {i \in 1..Len(s) :
                      /\ HasAt(s, DataSourceLit, i)
                      /\ i + Len(DataSourceLit) <= Len(s)
                      /\ IsDot(s[i + Len(DataSourceLit)])}
    IN  IF starts = {} THEN <<>>
        ELSE LET i == Min(starts)
                 g == i + Len(DataSourceLit)
                 e == RunEnd(s, g, "dot")
             IN  <<SubSeq(s, i, e), SubSeq(s, g, e)>>

\* datasourceRe.FindStringSubmatch, with
\*   datasourceRe = regexp.MustCompile(`DataSource([a-zA-Z0-9]+).*`)
\* <<>> when nothing matches, else <<whole match, group 1>> of the leftmost
\* match, both repetitions greedy.
datasourceReFind(s) ==
    LET starts == {i \in 1..Len(s) :
                      /\ HasAt(s, DataSourceLit, i)
                      /\ i + Len(DataSourceLit) <= Len(s)
                      /\ IsAlnum(s[i + Len(DataSourceLit)])}
    IN  IF starts = {} THEN <<>>
        ELSE LET i == Min(starts)
                 g == i + Len(DataSourceLit)
                 e == RunEnd(s, g, "alnum")
                 z == RunEnd(s, e + 1, "dot")
             IN  <<SubSeq(s, i, z), SubSeq(s, g, e)>>

\* cloudInitStatusRe.FindSubmatch, with
\*   cloudInitStatusRe = regexp.MustCompile(`(?m)^status: (.*)$`)
cloudInitStatusReFind(s) ==
    LET starts == {i \in 1..Len(s) :
                      /\ HasAt(s, StatusLit, i)
                      /\ (i = 1 \/ s[i - 1] = NL)}
    IN  IF starts = {} THEN <<>>
        ELSE LET i == Min(starts)
                 g == i + Len(StatusLit)
                 e == RunEnd(s, g, "dot")
             IN  <<SubSeq(s, i, e), SubSeq(s, g, e)>>

----------------------------------------------------------------------------
(* CloudInitStatus *)

StatusResult(state, err, ranAgent) ==
    [state |-> state, err |-> err, ranAgent |-> ranAgent]

\* StatusOfWord with a word it does not know taken for a finished run
StatusOfWord_UnknownIsDone(word) ==
    CASE word = <<"d", "i", "s", "a", "b", "l", "e", "d">> -> CloudInitUntriggered
      [] word = <<"e", "r", "r", "o", "r">>    -> CloudInitErrored
      [] word = <<"r", "u", "n", "n", "i", "n", "g">>  -> CloudInitEnabled
      [] word = <<"n", "o", "t", " ", "r", "u", "n">>  -> CloudInitEnabled
      [] OTHER               -> CloudInitDone

\* the switch on the status word that "cloud-init status" printed
StatusOfWord(word) ==
    CASE word = <<"d", "i", "s", "a", "b", "l", "e", "d">> -> CloudInitUntriggered
      [] word = <<"e", "r", "r", "o", "r">>    -> CloudInitErrored
      [] word = <<"d", "o", "n", "e">>     -> CloudInitDone
      [] OTHER               -> CloudInitEnabled

\* AskAgent with a missing executable reported as a failure of the command
AskAgent_NotFoundIsError(ag) ==
    IF ~ag.found \/ ag.exit # 0
    THEN StatusResult(CloudInitErrored, ErrCommand, TRUE)
    ELSE LET match == cloudInitStatusReFind(ag.out)
         IN  IF Len(match) # 2
             THEN StatusResult(CloudInitErrored, ErrInvalidOutput, TRUE)
             ELSE StatusResult(StatusOfWord(match[2]), NoErr, TRUE)

\* AskAgent with the exit status of the command not looked at
AskAgent_IgnoresExit(ag) ==
    IF ~ag.found
    THEN StatusResult(CloudInitNotFound, NoErr, FALSE)
    ELSE LET match == cloudInitStatusReFind(ag.out)
         IN  IF Len(match) # 2
             THEN StatusResult(CloudInitErrored, ErrInvalidOutput, TRUE)
             ELSE StatusResult(StatusOfWord(match[2]), NoErr, TRUE)

\* exec.LookPath and exec.Command(ciBinary, "status").CombinedOutput()
AskAgent(ag) ==
    IF ~ag.found
    THEN StatusResult(CloudInitNotFound, NoErr, FALSE)
    ELSE IF ag.exit # 0
    THEN StatusResult(CloudInitErrored, ErrCommand, TRUE)
    ELSE LET match == cloudInitStatusReFind(ag.out)
         IN  IF Len(match) # 2
             THEN StatusResult(CloudInitErrored, ErrInvalidOutput, TRUE)
             ELSE StatusResult(StatusOfWord(match[2]), NoErr, TRUE)

\* StatusOutcome without the check for zzzz_snapd.cfg
StatusOutcome_NoRestrictCheck(rf, df, ag) ==
    IF FileExists(df)
    THEN StatusResult(CloudInitDisabledPermanently, NoErr, FALSE)
    ELSE AskAgent(ag)

\* StatusOutcome without the check for cloud-init.disabled
StatusOutcome_NoDisabledCheck(rf, df, ag) ==
    IF FileExists(rf)
    THEN StatusResult(CloudInitRestrictedBySnapd, NoErr, FALSE)
    ELSE AskAgent(ag)

\* StatusOutcome with the two marker files checked in the other order
StatusOutcome_DisabledFirst(rf, df, ag) ==
    IF FileExists(df)
    THEN StatusResult(CloudInitDisabledPermanently, NoErr, FALSE)
    ELSE IF FileExists(rf)
    THEN StatusResult(CloudInitRestrictedBySnapd, NoErr, FALSE)
    ELSE AskAgent(ag)

\* what CloudInitStatus() returns for the given marker files and agent
StatusOutcome(rf, df, ag) ==
    IF FileExists(rf)
    THEN StatusResult(CloudInitRestrictedBySnapd, NoErr, FALSE)
    ELSE IF FileExists(df)
    THEN StatusResult(CloudInitDisabledPermanently, NoErr, FALSE)
    ELSE AskAgent(ag)

\* CloudInitStatus with the state it reported last kept and reported again
CloudInitStatus_Cached(ag) ==
    LET r == StatusOutcome(restrictFile, disabledFile, ag)
    IN  /\ ret' = [op |-> "status", agent |-> ag,
                   state |-> IF ret.op = "status" THEN ret.state ELSE r.state,
                   err |-> r.err, ranAgent |-> r.ranAgent]
        /\ UNCHANGED <<restrictFile, disabledFile, resultsFile, restricted>>
        /\ UNCHANGED <<extractVars, installVars>>

\* ag is cloud-init as this call finds it: whether the executable is found,
\* and the exit status and combined output of "cloud-init status"
CloudInitStatus(ag) ==
    LET r == StatusOutcome(restrictFile, disabledFile, ag)
    IN  /\ ret' = [op |-> "status", agent |-> ag, state |-> r.state,
                   err |-> r.err, ranAgent |-> r.ranAgent]
        /\ UNCHANGED <<restrictFile, disabledFile, resultsFile, restricted>>
        /\ UNCHANGED <<extractVars, installVars>>

----------------------------------------------------------------------------
(* RestrictCloudInit *)

\* *CloudInitRestrictOptions; the nil pointer is the record with nil set
Options(force, disableLocal) ==
    [nil |-> FALSE, ForceDisable |-> force,
     DisableAfterLocalDatasourcesRun |-> disableLocal]

NilOptions == [nil |-> TRUE, ForceDisable |-> FALSE,
               DisableAfterLocalDatasourcesRun |-> FALSE]

\* CloudInitRestrictionResult
RestrictionResult(action, datasource) ==
    [Action |-> action, DataSource |-> datasource]

\* What one call returns (res, err) and does: whether it opens the results
\* record, and which marker file it writes, with what content.
Outcome(res, err, opened, disable, restrict, yaml) ==
    [res |-> res, err |-> err, opened |-> opened,
     disable |-> disable, restrict |-> restrict, yaml |-> yaml]

Failed(res, err, opened) == Outcome(res, err, opened, FALSE, FALSE, <<>>)

\* json.NewDecoder(f).Decode(&stat): the v1.datasource of the record, ""
\* when the record does not have the field
DecodedDataSource(doc) == IF doc.hasDatasource THEN doc.datasource ELSE <<>>

\* RestrictDecision without the case of the NoCloud datasource
RestrictDecision_NoCloudGeneric(opts, datasource) ==
    LET res == RestrictionResult("restrict", datasource)
    IN  CASE opts.DisableAfterLocalDatasourcesRun
               /\ ListContains(localDatasources, datasource) ->
               Outcome([res EXCEPT !.Action = "disable"], NoErr, TRUE,
                       TRUE, FALSE, <<>>)
          [] OTHER ->
               Outcome(res, NoErr, TRUE, FALSE, TRUE,
                       Sprintf(genericCloudRestrictYamlPattern, datasource))

\* RestrictDecision without the case of DisableAfterLocalDatasourcesRun
RestrictDecision_NoDisableLocal(opts, datasource) ==
    LET res == RestrictionResult("restrict", datasource)
    IN  CASE datasource = NoCloud ->
               Outcome(res, NoErr, TRUE, FALSE, TRUE, nocloudRestrictYaml)
          [] OTHER ->
               Outcome(res, NoErr, TRUE, FALSE, TRUE,
                       Sprintf(genericCloudRestrictYamlPattern, datasource))

\* the final switch of RestrictCloudInit, on the options and the datasource
RestrictDecision(opts, datasource) ==
    LET res == RestrictionResult("restrict", datasource)
    IN  CASE opts.DisableAfterLocalDatasourcesRun
               /\ ListContains(localDatasources, datasource) ->
               Outcome([res EXCEPT !.Action = "disable"], NoErr, TRUE,
                       TRUE, FALSE, <<>>)
          [] datasource = NoCloud ->
               Outcome(res, NoErr, TRUE, FALSE, TRUE, nocloudRestrictYaml)
          [] OTHER ->
               Outcome(res, NoErr, TRUE, FALSE, TRUE,
                       Sprintf(genericCloudRestrictYamlPattern, datasource))

\* RestrictDone that takes the raw field when the pattern does not match
RestrictDone_NoFormatCheck(opts, doc) ==
    LET res == RestrictionResult("restrict", <<>>)
    IN  IF ~doc.exists THEN Failed(res, ErrOpen, TRUE)
        ELSE IF ~doc.json THEN Failed(res, ErrDecode, TRUE)
        ELSE LET datasourceRaw == DecodedDataSource(doc)
                 datasourceMatches == datasourceReFind(datasourceRaw)
             IN  IF datasourceRaw = <<>>
                 THEN Failed(res, ErrMissingDatasource, TRUE)
                 ELSE IF Len(datasourceMatches) # 2
                 THEN RestrictDecision(opts, datasourceRaw)
                 ELSE RestrictDecision(opts, datasourceMatches[2])

\* RestrictCloudInit from "from here on out, we are taking the restrict action"
RestrictDone(opts, doc) ==
    LET res == RestrictionResult("restrict", <<>>)
    IN  IF ~doc.exists THEN Failed(res, ErrOpen, TRUE)
        ELSE IF ~doc.json THEN Failed(res, ErrDecode, TRUE)
        ELSE LET datasourceRaw == DecodedDataSource(doc)
                 datasourceMatches == datasourceReFind(datasourceRaw)
             IN  IF datasourceRaw = <<>>
                 THEN Failed(res, ErrMissingDatasource, TRUE)
                 ELSE IF Len(datasourceMatches) # 2
                 THEN Failed(res, ErrDatasourceFormat, TRUE)
                 ELSE RestrictDecision(opts, datasourceMatches[2])

\* RestrictOutcome without the ForceDisable check of the errored and enabled
\* states
RestrictOutcome_ForceIgnored(state, opts0, doc) ==
    LET opts == IF opts0.nil THEN Options(FALSE, FALSE) ELSE opts0
        res  == RestrictionResult("", <<>>)
    IN  CASE state = CloudInitDone -> RestrictDone(opts, doc)
          [] state = CloudInitRestrictedBySnapd ->
               Failed(res, ErrAlreadyRestricted, FALSE)
          [] state = CloudInitDisabledPermanently ->
               Failed(res, ErrAlreadyDisabled, FALSE)
          [] OTHER ->
               Outcome([res EXCEPT !.Action = "disable"], NoErr, FALSE,
                       TRUE, FALSE, <<>>)

\* what RestrictCloudInit(state, opts) returns and does, given the results record
RestrictOutcome(state, opts0, doc) ==
    LET opts == IF opts0.nil THEN Options(FALSE, FALSE) ELSE opts0
        res  == RestrictionResult("", <<>>)
    IN  CASE state = CloudInitDone -> RestrictDone(opts, doc)
          [] state = CloudInitRestrictedBySnapd ->
               Failed(res, ErrAlreadyRestricted, FALSE)
          [] state = CloudInitDisabledPermanently ->
               Failed(res, ErrAlreadyDisabled, FALSE)
          [] state \in {CloudInitErrored, CloudInitEnabled}
               /\ ~opts.ForceDisable ->
               Failed(res, ErrActive, FALSE)
          [] OTHER ->
               Outcome([res EXCEPT !.Action = "disable"], NoErr, FALSE,
                       TRUE, FALSE, <<>>)

\* DisableCloudInit that makes the directory and forgets the file
DisableCloudInit_NoWrite(f) == f

\* DisableCloudInit(rootDir): writes the empty cloud-init.disabled
DisableCloudInit(f) == WriteFile(f, <<>>)

\* RestrictCloudInit that removes zzzz_snapd.cfg when it disables cloud-init
RestrictCloudInit_DisableReplacesRestrict(state, opts) ==
    LET o == RestrictOutcome(state, opts, resultsFile)
    IN  /\ disabledFile' = IF o.disable THEN DisableCloudInit(disabledFile)
                           ELSE disabledFile
        /\ restrictFile' = IF o.restrict THEN WriteFile(restrictFile, o.yaml)
                           ELSE IF o.disable THEN NoFile
                           ELSE restrictFile
        /\ restricted' = (restricted \/ o.err = NoErr)
        /\ ret' = [op |-> "restrict", state |-> state, opts |-> opts,
                   res |-> o.res, err |-> o.err, opened |-> o.opened,
                   wrote |-> (IF o.disable THEN {"cloud-init.disabled"} ELSE {})
                             \cup (IF o.restrict THEN {"zzzz_snapd.cfg"} ELSE {}),
                   before |-> [restrictFile |-> restrictFile,
                               disabledFile |-> disabledFile,
                               restricted |-> restricted]]
        /\ UNCHANGED resultsFile
        /\ UNCHANGED <<extractVars, installVars>>

RestrictCloudInit(state, opts) ==
    LET o == RestrictOutcome(state, opts, resultsFile)
    IN  /\ disabledFile' = IF o.disable THEN DisableCloudInit(disabledFile)
                           ELSE disabledFile
        /\ restrictFile' = IF o.restrict THEN WriteFile(restrictFile, o.yaml)
                           ELSE restrictFile
        /\ restricted' = (restricted \/ o.err = NoErr)
        /\ ret' = [op |-> "restrict", state |-> state, opts |-> opts,
                   res |-> o.res, err |-> o.err, opened |-> o.opened,
                   wrote |-> (IF o.disable THEN {"cloud-init.disabled"} ELSE {})
                             \cup (IF o.restrict THEN {"zzzz_snapd.cfg"} ELSE {}),
                   before |-> [restrictFile |-> restrictFile,
                               disabledFile |-> disabledFile,
                               restricted |-> restricted]]
        /\ UNCHANGED resultsFile
        /\ UNCHANGED <<extractVars, installVars>>

----------------------------------------------------------------------------
(* cloudDatasourcesInUse *)

\* yaml.Unmarshal into a supportedFilteredCloudConfig; DatasourceList is a
\* pointer to a slice, nil when the document has no datasource_list
Unmarshal(b) ==
    IF ~b.yaml
    THEN [err |-> ErrUnmarshal,
          cfg |-> [Datasource |-> {}, Reporting |-> {}, DatasourceList |-> NilSlice]]
    ELSE [err |-> NoErr,
          cfg |-> [Datasource |-> b.Datasource, Reporting |-> b.Reporting,
                   DatasourceList |-> IF b.hasDatasourceList
                                      THEN Slice(b.DatasourceList)
                                      ELSE NilSlice]]

\* InUseResult that does not count the entries of datasource_list as mentioned
InUseResult_ListNotMentioned(cfg) ==
    LET list == cfg.DatasourceList
        fromMaps == {ToUpper(ds) : ds \in cfg.Datasource}
                    \cup {ToUpper(ds) : ds \in cfg.Reporting}
        explicitlyAllowed ==
            IF list.nil THEN {}
            ELSE {ToUpper(list.items[i]) : i \in 1..Len(list.items)}
        sourcesMentionedInCfg == fromMaps
    IN  [ExplicitlyAllowed |->
             IF list.nil \/ Len(list.items) = 0
             THEN NilSlice
             ELSE Slice(SortStrings(explicitlyAllowed)),
         ExplicitlyNoneAllowed |-> ~list.nil /\ Len(list.items) = 0,
         Mentioned |->
             IF sourcesMentionedInCfg = {}
             THEN NilSlice
             ELSE Slice(SortStrings({ToUpper(ds) : ds \in sourcesMentionedInCfg}))]

\* InUseResult that asks for the length of the list and not whether it is there
InUseResult_NoNilCheck(cfg) ==
    LET list == cfg.DatasourceList
        fromMaps == {ToUpper(ds) : ds \in cfg.Datasource}
                    \cup {ToUpper(ds) : ds \in cfg.Reporting}
        explicitlyAllowed ==
            IF list.nil THEN {}
            ELSE {ToUpper(list.items[i]) : i \in 1..Len(list.items)}
        sourcesMentionedInCfg == fromMaps \cup explicitlyAllowed
    IN  [ExplicitlyAllowed |->
             IF list.nil \/ Len(list.items) = 0
             THEN NilSlice
             ELSE Slice(SortStrings(explicitlyAllowed)),
         ExplicitlyNoneAllowed |-> Len(list.items) = 0,
         Mentioned |->
             IF sourcesMentionedInCfg = {}
             THEN NilSlice
             ELSE Slice(SortStrings({ToUpper(ds) : ds \in sourcesMentionedInCfg}))]

\* the cloudDatasourcesInUseResult of a document that was read
InUseResult(cfg) ==
    LET list == cfg.DatasourceList
        fromMaps == {ToUpper(ds) : ds \in cfg.Datasource}
                    \cup {ToUpper(ds) : ds \in cfg.Reporting}
        explicitlyAllowed ==
            IF list.nil THEN {}
            ELSE {ToUpper(list.items[i]) : i \in 1..Len(list.items)}
        sourcesMentionedInCfg == fromMaps \cup explicitlyAllowed
    IN  [ExplicitlyAllowed |->
             IF list.nil \/ Len(list.items) = 0
             THEN NilSlice
             ELSE Slice(SortStrings(explicitlyAllowed)),
         ExplicitlyNoneAllowed |-> ~list.nil /\ Len(list.items) = 0,
         Mentioned |->
             IF sourcesMentionedInCfg = {}
             THEN NilSlice
             ELSE Slice(SortStrings({ToUpper(ds) : ds \in sourcesMentionedInCfg}))]

\* the result that comes with an error is the nil pointer
NilResult == [nil |-> TRUE]

\* what cloudDatasourcesInUse returns for the file
cloudDatasourcesInUse(file) ==
    IF ~FileExists(file)
    THEN [err |-> ErrReadFile, res |-> NilResult]
    ELSE LET u == Unmarshal(file.data)
         IN  IF u.err # NoErr
             THEN [err |-> u.err, res |-> NilResult]
             ELSE [err |-> NoErr, res |-> InUseResult(u.cfg)]

\* a call of cloudDatasourcesInUse(configFile)
CloudDatasourcesInUse ==
    /\ inUse' = [op |-> "inUse"] @@ cloudDatasourcesInUse(configFile)
    /\ UNCHANGED configFile
    /\ UNCHANGED <<restrictFile, disabledFile, resultsFile, restricted, ret>>
    /\ UNCHANGED <<installVars, boot>>

----------------------------------------------------------------------------
(* configureCloudInit *)

ModelSecured   == "secured"
ModelSigned    == "signed"
ModelDangerous == "dangerous"

\* the directories and files of the writable defaults, by their path below it
CloudDir    == "etc/cloud"
CloudCfgDir == "etc/cloud/cloud.cfg.d"

DisabledName  == <<"c", "l", "o", "u", "d", "-", "i", "n", "i", "t", ".", "d", "i", "s", "a", "b", "l", "e", "d">>
GadgetCfgName == <<"8", "0", "_", "d", "e", "v", "i", "c", "e", "_", "g", "a", "d", "g", "e", "t", ".", "c", "f", "g">>
SeedPrefix    == <<"9", "0", "_">>
CfgSuffix     == <<".", "c", "f", "g">>

\* the target before anything is installed: no directory, no marker file,
\* no file in etc/cloud/cloud.cfg.d
EmptyTarget == [dirs |-> {}, disabled |-> NoFile, cfgd |-> <<>>]

\* sysconfig.Options, as far as configureCloudInit reads them; the gadget
\* directory is always given
InstallOptions(targetRootDir, allow, srcDir) ==
    [TargetRootDir |-> targetRootDir, AllowCloudInit |-> allow,
     CloudInitSrcDir |-> srcDir]

\* HasGadgetCloudConf that finds a cloud.conf in every gadget
HasGadgetCloudConf_Always(conf) == TRUE

\* osutil.FileExists of <gadget dir>/cloud.conf

HasGadgetCloudConf(conf) == FileExists(conf)

\* os.MkdirAll: the directory and those above it
MkdirAll(t, dir) ==
    [t EXCEPT !.dirs = @ \cup (IF dir = CloudCfgDir THEN {CloudDir, CloudCfgDir}
                                                   ELSE {dir})]

\* osutil.CopyFile into etc/cloud/cloud.cfg.d: creates or replaces the file
CopyFile(t, data, name) == [t EXCEPT !.cfgd = (name :> File(data)) @@ @]

\* one file written, for the record of a call
Wrote(name, data) == [name |-> name, data |-> data]

\* how a step of the installation ends: the error, the target as it is
\* then, and the files written so far, in the order of the writes
Installed(err, t, log) == [err |-> err, target |-> t, log |-> log]

\* DisableCloudInit(rootDir) on the target
DisableCloudInitUnder(t) ==
    LET made == MkdirAll(t, CloudDir)
    IN  Installed(NoErr,
                  [made EXCEPT !.disabled = DisableCloudInit(@)],
                  <<Wrote(DisabledName, <<>>)>>)

\* filepath.Glob(filepath.Join(src, "*.cfg")): the names that match, sorted
Glob(src) == SortStrings({name \in DOMAIN src : HasSuffix(name, CfgSuffix)})

\* the loop of installCloudInitCfgDir over the files that Glob found
RECURSIVE CopyAll(_, _, _, _)
CopyAll(ccl, src, done, prefix) ==
    IF ccl = <<>> THEN done
    ELSE LET cc == Head(ccl)
             name == prefix \o cc
         IN  CopyAll(Tail(ccl), src,
                     Installed(NoErr,
                               CopyFile(done.target, src[cc].data, name),
                               Append(done.log, Wrote(name, src[cc].data))),
                     prefix)

\* installCloudInitCfgDir that leaves out the files that are not YAML
installCloudInitCfgDir_OnlyYaml(src, t, opts) ==
    LET ccl == SelectSeq(Glob(src), LAMBDA cc : src[cc].data.yaml)
    IN  IF Len(ccl) = 0
        THEN Installed(NoErr, t, <<>>)
        ELSE CopyAll(ccl, src, Installed(NoErr, MkdirAll(t, CloudCfgDir), <<>>),
                     opts.Prefix)

installCloudInitCfgDir(src, t, opts) ==
    LET ccl == Glob(src)
    IN  IF Len(ccl) = 0
        THEN Installed(NoErr, t, <<>>)
        ELSE CopyAll(ccl, src, Installed(NoErr, MkdirAll(t, CloudCfgDir), <<>>),
                     opts.Prefix)

\* installGadgetCloudInitCfg that copies the file before it reads it
installGadgetCloudInitCfg_CopyFirst(src, t) ==
    LET made == CopyFile(MkdirAll(t, CloudCfgDir), src.data, GadgetCfgName)
        datasourcesRes == cloudDatasourcesInUse(src)
    IN  Installed(datasourcesRes.err, made, <<Wrote(GadgetCfgName, src.data)>>)

\* installGadgetCloudInitCfg that installs an empty file
installGadgetCloudInitCfg_Empty(src, t) ==
    LET made == MkdirAll(t, CloudCfgDir)
        datasourcesRes == cloudDatasourcesInUse(src)
    IN  IF datasourcesRes.err # NoErr
        THEN Installed(datasourcesRes.err, made, <<>>)
        ELSE Installed(NoErr,
                       CopyFile(made, <<>>, GadgetCfgName),
                       <<Wrote(GadgetCfgName, <<>>)>>)

installGadgetCloudInitCfg(src, t) ==
    LET made == MkdirAll(t, CloudCfgDir)
        datasourcesRes == cloudDatasourcesInUse(src)
    IN  IF datasourcesRes.err # NoErr
        THEN Installed(datasourcesRes.err, made, <<>>)
        ELSE Installed(NoErr,
                       CopyFile(made, src.data, GadgetCfgName),
                       <<Wrote(GadgetCfgName, src.data)>>)

\* GradeSwitch with the grade signed going on to ubuntu-seed
GradeSwitch_SignedInstalls(grade) ==
    CASE grade = ModelSecured   -> [seed |-> FALSE, err |-> NoErr]
      [] grade = ModelSigned    -> [seed |-> TRUE,  err |-> NoErr]
      [] grade = ModelDangerous -> [seed |-> TRUE,  err |-> NoErr]
      [] OTHER                  -> [seed |-> FALSE, err |-> ErrUnknownGrade]

\* GradeSwitch with the default taken for the grade dangerous
GradeSwitch_UnknownIsDangerous(grade) ==
    CASE grade = ModelSecured   -> [seed |-> FALSE, err |-> NoErr]
      [] grade = ModelSigned    -> [seed |-> FALSE, err |-> NoErr]
      [] OTHER                  -> [seed |-> TRUE,  err |-> NoErr]

\* the switch on the grade, after the gadget configuration was installed:
\* whether the configuration of ubuntu-seed is looked at, and the error
GradeSwitch(grade) ==
    CASE grade = ModelSecured   -> [seed |-> FALSE, err |-> NoErr]
      [] grade = ModelSigned    -> [seed |-> FALSE, err |-> NoErr]
      [] grade = ModelDangerous -> [seed |-> TRUE,  err |-> NoErr]
      [] OTHER                  -> [seed |-> FALSE, err |-> ErrUnknownGrade]

\* ConfigureOutcome with the gadget configuration installed before
\* AllowCloudInit is looked at
ConfigureOutcome_GadgetFirst(grade, opts, gadget, seed, t) ==
    IF opts.TargetRootDir = ""
    THEN Installed(ErrMissingTargetDir, t, <<>>)
    ELSE LET g == IF HasGadgetCloudConf(gadget)
                  THEN installGadgetCloudInitCfg(gadget, t)
                  ELSE Installed(NoErr, t, <<>>)
             disabled == DisableCloudInitUnder(g.target)
         IN  IF g.err # NoErr THEN g
             ELSE Installed(disabled.err, disabled.target, g.log \o disabled.log)

\* what configureCloudInit returns and does, for the grade of the model,
\* the options, the gadget's cloud.conf, the files of opts.CloudInitSrcDir
\* and the target
ConfigureOutcome(grade, opts, gadget, seed, t) ==
    IF opts.TargetRootDir = ""
    THEN Installed(ErrMissingTargetDir, t, <<>>)
    ELSE IF ~opts.AllowCloudInit
    THEN DisableCloudInitUnder(t)
    ELSE LET g == IF HasGadgetCloudConf(gadget)
                  THEN installGadgetCloudInitCfg(gadget, t)
                  ELSE Installed(NoErr, t, <<>>)
             installOpts == [Prefix |-> SeedPrefix, Filter |-> FALSE]
             switch == GradeSwitch(grade)
         IN  IF g.err # NoErr THEN g
             ELSE IF switch.err # NoErr
             THEN Installed(switch.err, g.target, g.log)
             ELSE IF switch.seed /\ opts.CloudInitSrcDir # ""
             THEN LET s == installCloudInitCfgDir(seed, g.target, installOpts)
                  IN  Installed(s.err, s.target, g.log \o s.log)
             ELSE g

configureCloudInit(grade, opts) ==
    LET o == ConfigureOutcome(grade, opts, gadgetConf, seedDir, target)
    IN  /\ target' = o.target
        /\ installRet' = [op |-> "install", grade |-> grade, opts |-> opts,
                          err |-> o.err, log |-> o.log, before |-> target]
        /\ UNCHANGED <<gadgetConf, seedDir>>
        /\ UNCHANGED <<restrictFile, disabledFile, resultsFile, restricted, ret>>
        /\ UNCHANGED <<extractVars, boot>>

----------------------------------------------------------------------------
(* The environment: cloud-init itself *)

\* the k-th bracketed annotation cloud-init appends to the datasource name
Annotation(k) == IF k % 2 = 1 THEN <<" ", "[", "s", "e", "e", "d", "=", "/", "d", "e", "v", "/", "s", "r", "0", "]">> ELSE <<"[", "d", "s", "m", "o", "d", "e", "=", "n", "e", "t", "]">>

RECURSIVE Annotations(_)
Annotations(n) == IF n = 0 THEN <<>> ELSE Annotations(n - 1) \o Annotation(n)

DatasourceNames == {NoCloud, None, Ec2}

\* the values of v1.datasource: well formed ones, and ones that are not
DatasourceFields ==
    {DataSourceLit \o name \o Annotations(n) :
        name \in DatasourceNames \cup {<<>>}, n \in 0..MaxAnnotations}
    \cup {<<>>, Ec2}

ResultsValues ==
    {NoResults, GarbageResults, EmptyResults}
    \cup {Results(raw) : raw \in DatasourceFields}

\* the status words of cloud-init that the code names, and words it does not
StatusWords ==
    {<<"d", "i", "s", "a", "b", "l", "e", "d">>, <<"e", "r", "r", "o", "r">>, <<"d", "o", "n", "e">>, <<"r", "u", "n", "n", "i", "n", "g">>, <<"n", "o", "t", " ", "r", "u", "n">>,
     <<"d", "e", "g", "r", "a", "d", "e", "d">>, <<"D", "O", "N", "E">>}

\* what "cloud-init status" prints when it prints its status
StatusOutput(word) == StatusLit \o word \o <<NL>>

\* outputs that have no line starting with "status: "
BrokenOutputs == {<<>>, <<"S", "t", "a", "t", "u", "s", ":", " ", "d", "o", "n", "e", "\n">>, <<" ", "s", "t", "a", "t", "u", "s", ":", " ", "d", "o", "n", "e", "\n">>}

AgentOutputs ==
    {StatusOutput(word) : word \in StatusWords}
    \cup {<<"w", "a", "r", "n", "i", "n", "g", "\n">> \o StatusOutput(<<"d", "o", "n", "e">>)}
    \cup BrokenOutputs

\* what the command prints when it exits with a non-zero status
FailureOutputs == {StatusOutput(<<"e", "r", "r", "o", "r">>), StatusOutput(<<"d", "o", "n", "e">>), <<>>}

AgentValues ==
    {[found |-> FALSE, exit |-> 0, out |-> <<>>]}
    \cup {[found |-> TRUE, exit |-> 1, out |-> out] : out \in FailureOutputs}
    \cup {[found |-> TRUE, exit |-> 0, out |-> out] : out \in AgentOutputs}

\* cloud-init writes, rewrites or removes its results record
ResultsChange ==
    /\ resultsFile' \in ResultsValues \ {resultsFile}
    /\ ret' = [op |-> "none"]
    /\ UNCHANGED <<restrictFile, disabledFile, restricted>>
    /\ UNCHANGED <<extractVars, installVars, boot>>

----------------------------------------------------------------------------
(* The environment: configuration files *)

\* names of datasources as documents spell them
ConfigNames == {<<"m", "a", "a", "s">>, <<"M", "A", "A", "S">>, <<"M", "a", "a", "s">>, <<"N", "o", "C", "l", "o", "u", "d">>}

\* the sets of keys of a map of a document
KeySets == {keys \in SUBSET ConfigNames : Cardinality(keys) <= MaxKeys}

\* the values of datasource_list
RECURSIVE Lists(_)
Lists(n) ==
    IF n = 0 THEN {<<>>}
    ELSE LET shorter == Lists(n - 1)
         IN  shorter \cup {Append(list, name) :
                              list \in {l \in shorter : Len(l) = n - 1},
                              name \in ConfigNames}

CloudConfigs ==
    {CloudConfig(datasource, reporting, FALSE, <<>>) :
        datasource \in KeySets, reporting \in KeySets}
    \cup {CloudConfig(datasource, reporting, TRUE, list) :
            datasource \in KeySets, reporting \in KeySets,
            list \in Lists(MaxListLen)}

\* the files cloudDatasourcesInUse may be asked about
ConfigFiles == {NoFile, File(NotYaml)} \cup {File(doc) : doc \in CloudConfigs}

\* the gadget's cloud.conf: missing, not YAML, or a document
GadgetConfs ==
    {NoFile, File(NotYaml),
     File(CloudConfig({}, {}, TRUE, <<<<"N", "o", "C", "l", "o", "u", "d">>>>)),
     File(CloudConfig({<<"m", "a", "a", "s">>}, {}, FALSE, <<>>))}

\* the files that the cloud-init directory of ubuntu-seed may hold, of which
\* the last is no *.cfg file
SeedFileNames == {<<"u", "s", "e", "r", ".", "c", "f", "g">>, <<"0", "0", "_", "n", "e", "t", ".", "c", "f", "g">>, <<"n", "o", "t", "e", "s", ".", "c", "f", "g", ".", "b", "a", "k">>}

SeedFile(name) ==
    IF name = <<"u", "s", "e", "r", ".", "c", "f", "g">>
    THEN File(CloudConfig({}, {}, TRUE, <<<<"g", "c", "e">>>>))
    ELSE IF name = <<"0", "0", "_", "n", "e", "t", ".", "c", "f", "g">>
    THEN File(NotYaml)
    ELSE File(CloudConfig({<<"m", "a", "a", "s">>}, {}, FALSE, <<>>))

SeedDirs == {[name \in names |-> SeedFile(name)] : names \in SUBSET SeedFileNames}

\* a target in which an earlier installation left a gadget configuration
UsedTarget ==
    [dirs |-> {CloudDir, CloudCfgDir}, disabled |-> NoFile,
     cfgd |-> (GadgetCfgName :> File(CloudConfig({}, {}, FALSE, <<>>)))]

Grades == {ModelSecured, ModelSigned, ModelDangerous, "unset"}

InstallOptionValues ==
    {InstallOptions(dir, allow, src) :
        dir \in {"", "/run/mnt/ubuntu-data"},
        allow \in BOOLEAN,
        src \in {"", "/run/mnt/ubuntu-seed/data/etc/cloud/cloud.cfg.d"}}

----------------------------------------------------------------------------
(* The specification *)

\* no CloudInitStatus or RestrictCloudInit call is made
StatusIdle ==
    /\ restrictFile = NoFile
    /\ disabledFile = NoFile
    /\ resultsFile = NoResults
    /\ restricted = FALSE
    /\ ret = [op |-> "none"]

\* the two callers of the boot-time sequence
Procs == {"a", "b"}

\* no state obtained, no marker file written yet
NoState == CloudInitDisabledPermanently - 1

\* no caller is between its CloudInitStatus and its RestrictCloudInit call,
\* and no marker file was written yet
BootIdle ==
    boot = [pc |-> [p \in Procs |-> "idle"],
            got |-> [p \in Procs |-> NoState],
            first |-> NoState]

\* no cloudDatasourcesInUse call is made
ExtractIdle ==
    /\ configFile = NoFile
    /\ inUse = [op |-> "none"]

\* no configureCloudInit call is made
InstallIdle ==
    /\ gadgetConf = NoFile
    /\ seedDir = <<>>
    /\ target = EmptyTarget
    /\ installRet = [op |-> "none"]

StateArguments == CloudInitStates \cup {CloudInitErrored + 1}

OptionValues ==
    {NilOptions} \cup {Options(f, d) : f \in BOOLEAN, d \in BOOLEAN}

Init ==
    /\ restrictFile = NoFile
    /\ disabledFile = NoFile
    /\ resultsFile \in ResultsValues
    /\ restricted = FALSE
    /\ ret = [op |-> "none"]
    /\ ExtractIdle
    /\ InstallIdle
    /\ BootIdle

Restrict == \E state \in StateArguments, opts \in OptionValues :
                RestrictCloudInit(state, opts) /\ UNCHANGED boot

Status == \E ag \in AgentValues : CloudInitStatus(ag) /\ UNCHANGED boot

Next ==
    \/ Status
    \/ Restrict
    \/ ResultsChange

Spec == Init /\ [][Next]_vars

\* The boot-time sequence: a caller asks CloudInitStatus for the state and
\* then gives that state to RestrictCloudInit.  boot.first is the state that
\* the first write of a marker file established, as CloudInitStatus reports
\* it right after that write.
BootQuery(p) ==
    /\ boot.pc[p] = "idle"
    /\ \E ag \in AgentValues : CloudInitStatus(ag)
    /\ boot' = [boot EXCEPT !.pc[p] = "queried", !.got[p] = ret'.state]

BootRestrict(p) ==
    /\ boot.pc[p] = "queried"
    /\ \E opts \in OptionValues : RestrictCloudInit(boot.got[p], opts)
    /\ boot' = [boot EXCEPT
                  !.pc[p] = "idle",
                  !.got[p] = NoState,
                  !.first = IF @ = NoState /\ ret'.wrote # {}
                            THEN StatusOutcome(restrictFile', disabledFile',
                                               [found |-> FALSE, exit |-> 0,
                                                out |-> <<>>]).state
                            ELSE @]

\* a caller starts its sequence while no other is in the middle of its own
BootQueryAlone(p) ==
    /\ \A q \in Procs : boot.pc[q] = "idle"
    /\ BootQuery(p)

InitBoot ==
    /\ restrictFile = NoFile
    /\ disabledFile = NoFile
    /\ resultsFile \in ResultsValues
    /\ restricted = FALSE
    /\ ret = [op |-> "none"]
    /\ BootIdle
    /\ ExtractIdle
    /\ InstallIdle

\* the sequences of the callers interleave
NextBoot ==
    \/ \E p \in Procs : BootQuery(p)
    \/ \E p \in Procs : BootRestrict(p)
    \/ ResultsChange

SpecBoot == InitBoot /\ [][NextBoot]_vars

\* the sequences of the callers do not overlap
NextPairs ==
    \/ \E p \in Procs : BootQueryAlone(p)
    \/ \E p \in Procs : BootRestrict(p)
    \/ ResultsChange

SpecPairs == InitBoot /\ [][NextPairs]_vars

\* cloudDatasourcesInUse, applied to the configuration files
InitExtract ==
    /\ configFile \in ConfigFiles
    /\ inUse = [op |-> "none"]
    /\ StatusIdle
    /\ InstallIdle
    /\ BootIdle

NextExtract == CloudDatasourcesInUse

SpecExtract == InitExtract /\ [][NextExtract]_vars

\* configureCloudInit, called any number of times on one target
InitInstall ==
    /\ gadgetConf \in GadgetConfs
    /\ seedDir \in SeedDirs
    /\ target \in {EmptyTarget, UsedTarget}
    /\ installRet = [op |-> "none"]
    /\ StatusIdle
    /\ ExtractIdle
    /\ BootIdle

Install == \E grade \in Grades, opts \in InstallOptionValues :
               configureCloudInit(grade, opts)

NextInstall == Install

SpecInstall == InitInstall /\ [][NextInstall]_vars

----------------------------------------------------------------------------
(* Vocabulary of the properties *)

\* the states a CloudInitStatus() call may report with the marker files
\* rf and df, over everything cloud-init may answer
Reportable(rf, df) == {StatusOutcome(rf, df, ag).state : ag \in AgentValues}

\* what a CloudInitStatus() call made now may report
ReportedNow == Reportable(restrictFile, disabledFile)

Restricting == ret.op = "restrict"

\* the last RestrictCloudInit call was given a state that CloudInitStatus
\* reports for the files the call found
GivenReportedState ==
    ret.state \in Reportable(ret.before.restrictFile, ret.before.disabledFile)

ForceDisable(opts) == ~opts.nil /\ opts.ForceDisable

DisableAfterLocalDatasourcesRun(opts) ==
    ~opts.nil /\ opts.DisableAfterLocalDatasourcesRun

DefaultOptions(opts) ==
    ~ForceDisable(opts) /\ ~DisableAfterLocalDatasourcesRun(opts)

\* the results records whose v1.datasource is "DataSource", the name and
\* between min and MaxAnnotations annotations
ResultsNaming(name, min) ==
    {Results(DataSourceLit \o name \o Annotations(n)) : n \in min..MaxAnnotations}

\* raw has a match of the pattern DataSource([a-zA-Z0-9]+).*
NamesDatasource(raw) ==
    \E i \in 1..Len(raw) :
        /\ HasAt(raw, DataSourceLit, i - Len(DataSourceLit))
        /\ IsAlnum(raw[i])

\* a document that holds the allow-list pinned to name and nothing else
OnlyAllowList(data, name) ==
    /\ Lines(data) = <<<<"d", "a", "t", "a", "s", "o", "u", "r", "c", "e", "_", "l", "i", "s", "t", ":", " ", "[">> \o name \o <<"]">>>>
    /\ data[Len(data)] = NL

\* a document that pins the allow-list to NoCloud, sets the fs_label of
\* NoCloud to null and sets manual_cache_clean
NoCloudHardened(data) ==
    LET ls == Lines(data)
    IN  /\ \E i \in 1..Len(ls) : ls[i] = <<"d", "a", "t", "a", "s", "o", "u", "r", "c", "e", "_", "l", "i", "s", "t", ":", " ", "[", "N", "o", "C", "l", "o", "u", "d", "]">>
        /\ \E i \in 1..Len(ls) : ls[i] = <<"m", "a", "n", "u", "a", "l", "_", "c", "a", "c", "h", "e", "_", "c", "l", "e", "a", "n", ":", " ", "t", "r", "u", "e">>
        /\ \E i \in 1..(Len(ls) - 2) :
              /\ ls[i] = <<"d", "a", "t", "a", "s", "o", "u", "r", "c", "e", ":">>
              /\ ls[i + 1] = <<" ", " ", "N", "o", "C", "l", "o", "u", "d", ":">>
              /\ ls[i + 2] = <<" ", " ", " ", " ", "f", "s", "_", "l", "a", "b", "e", "l", ":", " ", "n", "u", "l", "l">>

MarkersUntouched ==
    /\ ret.wrote = {}
    /\ restrictFile = ret.before.restrictFile
    /\ disabledFile = ret.before.disabledFile

----------------------------------------------------------------------------
(* Properties *)

\* C1: when a RestrictCloudInit call has succeeded (with either outcome), a
\* further call given the state CloudInitStatus reports from then on returns
\* "already restricted" or "already disabled" and writes no file.
C1_SecondRestrictErrors ==
    (Restricting /\ ret.before.restricted /\ GivenReportedState)
        => /\ ret.err \in {ErrAlreadyRestricted, ErrAlreadyDisabled}
           /\ MarkersUntouched

C1_Witness ==
    /\ Restricting /\ ret.before.restricted /\ GivenReportedState
    /\ ret.err = ErrAlreadyDisabled
    /\ disabledFile.exists

C3_StatusPrecedence ==
    ret.op = "status" =>
        /\ restrictFile.exists
             => /\ ret.state = CloudInitRestrictedBySnapd
                /\ ret.err = NoErr
        /\ (~restrictFile.exists /\ disabledFile.exists)
             => /\ ret.state = CloudInitDisabledPermanently
                /\ ret.err = NoErr
        /\ (~restrictFile.exists /\ ~disabledFile.exists /\ ~ret.agent.found)
             => /\ ret.state = CloudInitNotFound
                /\ ret.err = NoErr
        /\ ret.ranAgent
             <=> (~restrictFile.exists /\ ~disabledFile.exists /\ ret.agent.found)

C3_Witness ==
    /\ ret.op = "status"
    /\ restrictFile.exists /\ disabledFile.exists
    /\ ret.agent.found
    /\ ret.state = CloudInitRestrictedBySnapd

\* C4: RestrictCloudInit given RestrictedBySnapd or DisabledPermanently, or
\* given Errored or Enabled without ForceDisable, returns an error and leaves
\* both marker files as they were.
C4_RefusedCallsWriteNothing ==
    (/\ Restricting
     /\ \/ ret.state \in {CloudInitRestrictedBySnapd, CloudInitDisabledPermanently}
        \/ /\ ret.state \in {CloudInitErrored, CloudInitEnabled}
           /\ ~ForceDisable(ret.opts))
        => /\ ret.err # NoErr
           /\ MarkersUntouched

C4_Witness ==
    /\ Restricting
    /\ ret.state = CloudInitEnabled /\ ~ForceDisable(ret.opts)
    /\ ret.err = ErrActive
    /\ ~restrictFile.exists /\ ~disabledFile.exists

\* C5: RestrictCloudInit given Untriggered or NotFound, or given Errored or
\* Enabled with ForceDisable, writes cloud-init.disabled and nothing else,
\* returns the action "disable" with no datasource, and does not open the
\* results record.
C5_DisableWithoutResults ==
    (/\ Restricting
     /\ \/ ret.state \in {CloudInitUntriggered, CloudInitNotFound}
        \/ /\ ret.state \in {CloudInitErrored, CloudInitEnabled}
           /\ ForceDisable(ret.opts))
        => /\ ret.err = NoErr
           /\ ret.res = RestrictionResult("disable", <<>>)
           /\ ret.wrote = {"cloud-init.disabled"}
           /\ disabledFile = File(<<>>)
           /\ restrictFile = ret.before.restrictFile
           /\ ~ret.opened

C5_Witness ==
    /\ Restricting
    /\ ret.state = CloudInitErrored /\ ForceDisable(ret.opts)
    /\ ret.res.Action = "disable"
    /\ ~ret.before.disabledFile.exists
    /\ disabledFile.exists

\* C6: RestrictCloudInit given Done returns an error and writes neither
\* marker file when the results record is missing or is not JSON, when its
\* v1.datasource is missing or empty, or when that field has no match of
\* the datasource pattern.
C6_BadResultsWriteNothing ==
    (/\ Restricting /\ ret.state = CloudInitDone
     /\ \/ ~resultsFile.exists
        \/ ~resultsFile.json
        \/ ~resultsFile.hasDatasource
        \/ resultsFile.datasource = <<>>
        \/ ~NamesDatasource(resultsFile.datasource))
        => /\ ret.err # NoErr
           /\ ret.res.DataSource = <<>>
           /\ ret.opened
           /\ MarkersUntouched

C6_Witness ==
    /\ Restricting /\ ret.state = CloudInitDone
    /\ resultsFile = Results(DataSourceLit \o Annotations(1))
    /\ ret.err = ErrDatasourceFormat
    /\ ~restrictFile.exists /\ ~disabledFile.exists

\* C7: when CloudInitStatus reports Done and the results record names
\* NoCloud, RestrictCloudInit with default options returns the action
\* "restrict" with datasource NoCloud and writes a zzzz_snapd.cfg that pins
\* the allow-list to NoCloud, sets the NoCloud fs_label to null and sets
\* manual_cache_clean; from then on every CloudInitStatus call reports
\* RestrictedBySnapd without running cloud-init.
C7_Case ==
    /\ Restricting /\ ret.state = CloudInitDone /\ GivenReportedState
    /\ DefaultOptions(ret.opts)
    /\ resultsFile \in ResultsNaming(NoCloud, 0)

C7_Restricted ==
    /\ ret.err = NoErr
    /\ ret.res = RestrictionResult("restrict", NoCloud)
    /\ ret.wrote = {"zzzz_snapd.cfg"}
    /\ restrictFile.exists
    /\ NoCloudHardened(restrictFile.data)
    /\ disabledFile = ret.before.disabledFile

C7_Later ==
    ret.op = "status"
        => /\ ret.state = CloudInitRestrictedBySnapd
           /\ ret.err = NoErr
           /\ ~ret.ranAgent

C7_NoCloudRestricted == [](C7_Case => (C7_Restricted /\ []C7_Later))

C7_Witness ==
    /\ C7_Case
    /\ ret.res.DataSource = NoCloud
    /\ restrictFile.exists

\* C8 as stated: RestrictCloudInit given Done with
\* DisableAfterLocalDatasourcesRun writes cloud-init.disabled instead of a
\* restriction file and returns "disable" when the datasource is NoCloud or
\* None, and CloudInitStatus then reports DisabledPermanently; for another
\* datasource it returns "restrict" and writes the restriction file.
C8_Case ==
    /\ Restricting /\ ret.state = CloudInitDone
    /\ DisableAfterLocalDatasourcesRun(ret.opts)

C8_LocalDisabled ==
    /\ ret.err = NoErr
    /\ ret.res.Action = "disable"
    /\ ret.wrote = {"cloud-init.disabled"}
    /\ disabledFile.exists
    /\ restrictFile = ret.before.restrictFile

C8_OtherRestricted ==
    /\ ret.err = NoErr
    /\ ret.res = RestrictionResult("restrict", Ec2)
    /\ ret.wrote = {"zzzz_snapd.cfg"}
    /\ restrictFile.exists
    /\ disabledFile = ret.before.disabledFile

C8_DisableLocal ==
    C8_Case =>
        /\ resultsFile \in ResultsNaming(NoCloud, 0) \cup ResultsNaming(None, 0)
             => /\ C8_LocalDisabled
                /\ ReportedNow = {CloudInitDisabledPermanently}
        /\ resultsFile \in ResultsNaming(Ec2, 0) => C8_OtherRestricted

\* C8 amended: as stated, but CloudInitStatus then reports
\* DisabledPermanently only if zzzz_snapd.cfg did not exist before the call
\* (as is the case whenever CloudInitStatus reported the Done that the call
\* is given); if it did, RestrictedBySnapd is still reported.
C8_DisableLocalUnlessRestricted ==
    C8_Case =>
        /\ resultsFile \in ResultsNaming(NoCloud, 0) \cup ResultsNaming(None, 0)
             => /\ C8_LocalDisabled
                /\ ~ret.before.restrictFile.exists
                     => ReportedNow = {CloudInitDisabledPermanently}
                /\ GivenReportedState
                     => ReportedNow = {CloudInitDisabledPermanently}
                /\ ret.before.restrictFile.exists
                     => ReportedNow = {CloudInitRestrictedBySnapd}
        /\ resultsFile \in ResultsNaming(Ec2, 0) => C8_OtherRestricted

C8_Witness ==
    /\ C8_Case /\ GivenReportedState
    /\ resultsFile \in ResultsNaming(None, 0)
    /\ ret.res = RestrictionResult("disable", None)
    /\ ReportedNow = {CloudInitDisabledPermanently}

\* C9 as stated: a zzzz_snapd.cfg holding only the allow-list pinned to one
\* datasource is written only for a datasource that is neither NoCloud nor
\* None, whatever the options.
C9_Case ==
    /\ Restricting
    /\ "zzzz_snapd.cfg" \in ret.wrote
    /\ OnlyAllowList(restrictFile.data, ret.res.DataSource)

----------------------------------------------------------------------------
(* Properties of CloudInitStatus *)

StatusCall == ret.op = "status"

\* neither marker file exists; a CloudInitStatus call writes nothing, so
\* after one this is also what the call found
NoMarkers == ~restrictFile.exists /\ ~disabledFile.exists

\* the last call found the executable, which exited with 0 and printed
\* "status: " and the word
AgentSaid(word) ==
    ret.agent = [found |-> TRUE, exit |-> 0, out |-> StatusOutput(word)]

\* the words that the switch of the code does not name
UnrecognizedWords ==
    StatusWords \ {<<"d", "i", "s", "a", "b", "l", "e", "d">>, <<"e", "r", "r", "o", "r">>, <<"d", "o", "n", "e">>, <<"r", "u", "n", "n", "i", "n", "g">>, <<"n", "o", "t", " ", "r", "u", "n">>}

\* some line of the output starts with "status: "
HasStatusLine(out) ==
    \E i \in 1..Len(Lines(out)) : HasAt(Lines(out)[i], StatusLit, 1)

\* C11: with no marker file and cloud-init found and exiting with 0,
\* CloudInitStatus turns the word "disabled" into Untriggered, "error" into
\* Errored, "done" into Done, and "running", "not run" and every word it
\* does not know into Enabled, with a nil error; and a RestrictCloudInit call
\* that is given the state reported for a word it does not know, without
\* ForceDisable, writes no marker file.
C11_WordMapping ==
    /\ (StatusCall /\ NoMarkers)
          => /\ AgentSaid(<<"d", "i", "s", "a", "b", "l", "e", "d">>) => ret.state = CloudInitUntriggered
             /\ AgentSaid(<<"e", "r", "r", "o", "r">>) => ret.state = CloudInitErrored
             /\ AgentSaid(<<"d", "o", "n", "e">>) => ret.state = CloudInitDone
             /\ AgentSaid(<<"r", "u", "n", "n", "i", "n", "g">>) => ret.state = CloudInitEnabled
             /\ AgentSaid(<<"n", "o", "t", " ", "r", "u", "n">>) => ret.state = CloudInitEnabled
             /\ \A word \in UnrecognizedWords :
                    AgentSaid(word) => ret.state = CloudInitEnabled
             /\ (\E word \in StatusWords : AgentSaid(word)) => ret.err = NoErr
    /\ \A word \in UnrecognizedWords :
          (/\ Restricting
           /\ ~ForceDisable(ret.opts)
           /\ ret.state = StatusOutcome(NoFile, NoFile,
                              [found |-> TRUE, exit |-> 0,
                               out |-> StatusOutput(word)]).state)
              => MarkersUntouched

C11_Witness ==
    /\ StatusCall /\ NoMarkers
    /\ AgentSaid(<<"d", "e", "g", "r", "a", "d", "e", "d">>)
    /\ ret.state = CloudInitEnabled
    /\ ret.err = NoErr

\* C12: with no marker file and cloud-init found, CloudInitStatus returns
\* Errored and a non-nil error whenever the command exits with a non-zero
\* status, whatever it printed, and whenever what it printed has no line
\* "status: <word>".
C12_FailureIsErrored ==
    (/\ StatusCall /\ NoMarkers
     /\ ret.agent.found
     /\ (ret.agent.exit # 0 \/ ~HasStatusLine(ret.agent.out)))
        => /\ ret.state = CloudInitErrored
           /\ ret.err # NoErr

C12_Witness ==
    /\ StatusCall /\ NoMarkers
    /\ ret.agent = [found |-> TRUE, exit |-> 1, out |-> StatusOutput(<<"d", "o", "n", "e">>)]
    /\ ret.state = CloudInitErrored
    /\ ret.err = ErrCommand

\* C13: a CloudInitStatus call creates, changes and removes no file, and
\* what it returns is what the marker files and cloud-init as they are at
\* the call determine, whatever was returned or written before: a call
\* made after RestrictCloudInit wrote a marker file reports that marker.
C13_StatusIsPure ==
    [][ret'.op = "status"
         => /\ UNCHANGED <<restrictFile, disabledFile, resultsFile>>
            /\ LET now == StatusOutcome(restrictFile', disabledFile', ret'.agent)
               IN  ret'.state = now.state /\ ret'.err = now.err
            /\ restrictFile'.exists => ret'.state = CloudInitRestrictedBySnapd
            /\ (~restrictFile'.exists /\ disabledFile'.exists)
                  => ret'.state = CloudInitDisabledPermanently
            /\ NoMarkers'
                  => ret'.state \notin {CloudInitRestrictedBySnapd,
                                        CloudInitDisabledPermanently}]_vars

C13_Witness ==
    /\ StatusCall
    /\ restricted
    /\ restrictFile.exists
    /\ ret.agent.found /\ ret.agent.exit = 0 /\ ret.agent.out = StatusOutput(<<"r", "u", "n", "n", "i", "n", "g">>)
    /\ ret.state = CloudInitRestrictedBySnapd

----------------------------------------------------------------------------
(* Properties of configureCloudInit *)

InstallCall == installRet.op = "install"

Allowed == installRet.opts.AllowCloudInit

TargetGiven == installRet.opts.TargetRootDir # ""

SeedGiven == installRet.opts.CloudInitSrcDir # ""

Succeeded == installRet.err = NoErr

KnownGrades == {ModelSecured, ModelSigned, ModelDangerous}

\* the *.cfg files of the cloud-init directory of ubuntu-seed
SeedCfgNames == {name \in DOMAIN seedDir : HasSuffix(name, CfgSuffix)}

\* the writes of the last call that made a file with the prefix 90_
SeedWrites ==
    {i \in 1..Len(installRet.log) : HasPrefix(installRet.log[i].name, SeedPrefix)}

\* the last call wrote no file with the prefix 90_, and those that the
\* target holds are those it held before, unchanged
NoSeedInstalled ==
    /\ SeedWrites = {}
    /\ \A name \in DOMAIN target.cfgd :
          HasPrefix(name, SeedPrefix)
              => /\ name \in DOMAIN installRet.before.cfgd
                 /\ target.cfgd[name] = installRet.before.cfgd[name]

\* C14: configureCloudInit installs no file of ubuntu-seed (no file with
\* the prefix 90_) for the grades secured and signed, whatever ubuntu-seed
\* holds and whether or not the gadget has a cloud.conf; a call that
\* installs such a file is a call for the grade dangerous.
C14_SeedOnlyForDangerous ==
    InstallCall
        => /\ installRet.grade \in {ModelSecured, ModelSigned} => NoSeedInstalled
           /\ SeedWrites # {} => installRet.grade = ModelDangerous

C14_Witness ==
    /\ InstallCall /\ Allowed /\ TargetGiven /\ SeedGiven /\ Succeeded
    /\ installRet.grade = ModelSigned
    /\ Cardinality(SeedCfgNames) = 2
    /\ gadgetConf.exists
    /\ installRet.log = <<Wrote(GadgetCfgName, gadgetConf.data)>>

\* C15: with AllowCloudInit false and a target directory given,
\* configureCloudInit writes cloud-init.disabled below the target and
\* returns nil, and it installs neither the gadget's configuration nor any
\* of ubuntu-seed, for every grade, those it does not know included.
C15_DisallowedOnlyDisables ==
    (InstallCall /\ ~Allowed /\ TargetGiven)
        => /\ Succeeded
           /\ target.disabled.exists
           /\ installRet.log = <<Wrote(DisabledName, <<>>)>>
           /\ target.cfgd = installRet.before.cfgd
           /\ target.dirs = installRet.before.dirs \cup {CloudDir}

C15_Witness ==
    /\ InstallCall /\ ~Allowed /\ TargetGiven /\ SeedGiven
    /\ installRet.grade \notin KnownGrades
    /\ gadgetConf.exists /\ gadgetConf.data.yaml
    /\ SeedCfgNames # {}
    /\ ~installRet.before.disabled.exists
    /\ target.disabled.exists
    /\ target.cfgd = <<>>

\* C16: with AllowCloudInit true and a cloud.conf in the gadget, every
\* configureCloudInit call that returns nil, for each of the grades
\* secured, signed and dangerous, leaves 80_device_gadget.cfg in
\* etc/cloud/cloud.cfg.d with the content of cloud.conf, and that file is
\* the first one the call writes, before any file of ubuntu-seed.
C16_GadgetInstalledFirst ==
    (/\ InstallCall /\ Allowed /\ Succeeded
     /\ gadgetConf.exists
     /\ installRet.grade \in KnownGrades)
        => /\ CloudCfgDir \in target.dirs
           /\ GadgetCfgName \in DOMAIN target.cfgd
           /\ target.cfgd[GadgetCfgName] = gadgetConf
           /\ Len(installRet.log) >= 1
           /\ installRet.log[1] = Wrote(GadgetCfgName, gadgetConf.data)
           /\ \A i \in SeedWrites : i > 1

C16_Witness ==
    /\ InstallCall /\ Allowed /\ Succeeded
    /\ gadgetConf.exists
    /\ installRet.grade = ModelDangerous
    /\ GadgetCfgName \in DOMAIN installRet.before.cfgd
    /\ installRet.before.cfgd[GadgetCfgName] # gadgetConf
    /\ target.cfgd[GadgetCfgName] = gadgetConf
    /\ Cardinality(SeedWrites) = 2

\* C17: for the grade dangerous, with AllowCloudInit true and
\* CloudInitSrcDir given, a configureCloudInit call that returns nil has
\* installed every *.cfg file of that directory, with the content it has
\* there, whatever it is, under the name 90_<name of the file> in
\* etc/cloud/cloud.cfg.d, and each of these names sorts after
\* 80_device_gadget.cfg.
C17_DangerousInstallsAllSeed ==
    (/\ InstallCall /\ Allowed /\ SeedGiven /\ Succeeded
     /\ installRet.grade = ModelDangerous)
        => /\ \A name \in SeedCfgNames :
                 LET installed == SeedPrefix \o name
                 IN  /\ installed \in DOMAIN target.cfgd
                     /\ target.cfgd[installed] = seedDir[name]
                     /\ StringLess(GadgetCfgName, installed)
                     /\ \E i \in SeedWrites :
                           installRet.log[i] = Wrote(installed, seedDir[name].data)
           /\ {installRet.log[i].name : i \in SeedWrites}
                 = {SeedPrefix \o name : name \in SeedCfgNames}

C17_Witness ==
    /\ InstallCall /\ Allowed /\ SeedGiven /\ Succeeded
    /\ installRet.grade = ModelDangerous
    /\ DOMAIN seedDir = SeedFileNames
    /\ ~gadgetConf.exists
    /\ DOMAIN target.cfgd \ DOMAIN installRet.before.cfgd
          = {<<"9", "0", "_", "u", "s", "e", "r", ".", "c", "f", "g">>, <<"9", "0", "_", "0", "0", "_", "n", "e", "t", ".", "c", "f", "g">>}
    /\ target.cfgd[<<"9", "0", "_", "0", "0", "_", "n", "e", "t", ".", "c", "f", "g">>] = File(NotYaml)

\* C18: with AllowCloudInit true, a configureCloudInit call for a grade
\* that is none of secured, signed and dangerous returns an error, and it
\* installs no file of ubuntu-seed.
C18_UnknownGradeFails ==
    (InstallCall /\ Allowed /\ installRet.grade \notin KnownGrades)
        => /\ ~Succeeded
           /\ NoSeedInstalled

C18_Witness ==
    /\ InstallCall /\ Allowed /\ TargetGiven /\ SeedGiven
    /\ installRet.grade \notin KnownGrades
    /\ SeedCfgNames # {}
    /\ gadgetConf.exists
    /\ installRet.err = ErrUnknownGrade
    /\ installRet.log = <<Wrote(GadgetCfgName, gadgetConf.data)>>

\* the last call left the target as it was
TargetUntouched ==
    /\ target = installRet.before
    /\ installRet.log = <<>>

\* C19 as stated: with AllowCloudInit true, no CloudInitSrcDir and no
\* cloud.conf in the gadget, configureCloudInit returns nil for each of the
\* grades secured, signed and dangerous, and it leaves the target as it
\* was: no directory, no configuration file and no marker file is made.
C19_NothingToInstall ==
    (/\ InstallCall /\ Allowed /\ ~SeedGiven
     /\ ~gadgetConf.exists
     /\ installRet.grade \in KnownGrades)
        => /\ Succeeded
           /\ TargetUntouched

\* C19, amended: with a target directory given, AllowCloudInit true, no
\* CloudInitSrcDir and no cloud.conf in the gadget, configureCloudInit
\* returns nil for each of the grades secured, signed and dangerous and
\* leaves the target as it was; without a target directory it leaves the
\* target as it was too, but returns an error.
C19_NothingToInstallInTarget ==
    (/\ InstallCall /\ Allowed /\ ~SeedGiven
     /\ ~gadgetConf.exists
     /\ installRet.grade \in KnownGrades)
        => /\ TargetUntouched
           /\ Succeeded <=> TargetGiven
           /\ ~TargetGiven => installRet.err = ErrMissingTargetDir

C19_Witness ==
    /\ InstallCall /\ Allowed /\ ~SeedGiven /\ TargetGiven /\ Succeeded
    /\ ~gadgetConf.exists
    /\ installRet.grade = ModelDangerous
    /\ SeedCfgNames # {}
    /\ target = EmptyTarget

----------------------------------------------------------------------------
(* Properties of cloudDatasourcesInUse *)

\* the last cloudDatasourcesInUse call read and parsed the document
Parsed == inUse.op = "inUse" /\ inUse.err = NoErr

\* C20: for a document that cloudDatasourcesInUse parsed,
\* ExplicitlyNoneAllowed is true exactly when datasource_list is there and
\* empty, and then ExplicitlyAllowed is empty; when datasource_list is
\* missing, ExplicitlyAllowed is nil and ExplicitlyNoneAllowed is false;
\* when it is there with entries, ExplicitlyNoneAllowed is false and
\* ExplicitlyAllowed is not empty.
C20_AllowListCases ==
    Parsed
        => LET doc == configFile.data
               res == inUse.res
           IN  /\ res.ExplicitlyNoneAllowed
                     <=> (doc.hasDatasourceList /\ doc.DatasourceList = <<>>)
               /\ res.ExplicitlyNoneAllowed
                     => Len(res.ExplicitlyAllowed.items) = 0
               /\ ~doc.hasDatasourceList
                     => /\ res.ExplicitlyAllowed.nil
                        /\ ~res.ExplicitlyNoneAllowed
               /\ (doc.hasDatasourceList /\ doc.DatasourceList # <<>>)
                     => /\ ~res.ExplicitlyNoneAllowed
                        /\ ~res.ExplicitlyAllowed.nil
                        /\ Len(res.ExplicitlyAllowed.items) > 0

C20_Witness ==
    /\ Parsed
    /\ configFile.data.hasDatasourceList
    /\ configFile.data.DatasourceList = <<>>
    /\ configFile.data.Datasource # {}
    /\ inUse.res.ExplicitlyNoneAllowed
    /\ inUse.res.ExplicitlyAllowed.items = <<>>
    /\ ~inUse.res.Mentioned.nil

\* the members of a slice
Members(slice) == {slice.items[i] : i \in 1..Len(slice.items)}

\* no item of the slice is there twice
NoDuplicates(slice) ==
    \A i, j \in 1..Len(slice.items) : slice.items[i] = slice.items[j] => i = j

\* two characters that are one letter, in either case, or the same character
SameLetter(c, d) ==
    \/ c = d
    \/ \E i \in 1..Len(LowerCase) : {c, d} = {LowerCase[i], UpperCase[i]}

\* two names that differ in the case of letters at most
SameName(a, b) ==
    /\ Len(a) = Len(b)
    /\ \A i \in 1..Len(a) : SameLetter(a[i], b[i])

\* the spelling of the name in capital letters, among the names given
Capitals(name, names) ==
    CHOOSE up \in names :
        /\ SameName(up, name)
        /\ \A i \in 1..Len(up) : \A k \in 1..Len(LowerCase) : up[i] # LowerCase[k]

\* the names the model spells documents with, and each in capital letters
Spellings == ConfigNames \cup {<<"N", "O", "C", "L", "O", "U", "D">>}

\* C21: for every document that cloudDatasourcesInUse parsed, every member
\* of ExplicitlyAllowed is a member of Mentioned, and the members of
\* Mentioned are exactly the names, in capital letters, of the keys of
\* "datasource", of the keys of "reporting" and of the entries of
\* datasource_list, none of them twice.
C21_MentionedIsUnion ==
    Parsed
        => LET doc == configFile.data
               res == inUse.res
               listed == {doc.DatasourceList[i] : i \in 1..Len(doc.DatasourceList)}
           IN  /\ Members(res.ExplicitlyAllowed) \subseteq Members(res.Mentioned)
               /\ Members(res.Mentioned)
                     = {Capitals(name, Spellings) :
                           name \in doc.Datasource \cup doc.Reporting \cup listed}
               /\ NoDuplicates(res.Mentioned)
               /\ NoDuplicates(res.ExplicitlyAllowed)

C21_Witness ==
    /\ Parsed
    /\ configFile.data.Datasource = {<<"m", "a", "a", "s">>}
    /\ configFile.data.Reporting = {<<"M", "a", "a", "s">>}
    /\ configFile.data.DatasourceList = <<<<"N", "o", "C", "l", "o", "u", "d">>, <<"M", "A", "A", "S">>>>
    /\ inUse.res.Mentioned = Slice(<<<<"M", "A", "A", "S">>, <<"N", "O", "C", "L", "O", "U", "D">>>>)
    /\ inUse.res.ExplicitlyAllowed = Slice(<<<<"M", "A", "A", "S">>, <<"N", "O", "C", "L", "O", "U", "D">>>>)

\* the ways to spell each name of a document anew, in another case
Recasings == {r \in [ConfigNames -> ConfigNames] :
                 \A name \in ConfigNames : SameName(r[name], name)}

\* the document with each of its names spelled as r spells it
Recased(doc, r) ==
    [doc EXCEPT !.Datasource = {r[name] : name \in @},
                !.Reporting = {r[name] : name \in @},
                !.DatasourceList = [i \in 1..Len(@) |-> r[@[i]]]]

\* C22: a document that cloudDatasourcesInUse parsed and the same document
\* with its datasource names, in "datasource", "reporting" and
\* datasource_list, spelled in another case give the same Mentioned and the
\* same ExplicitlyAllowed; and no two members of Mentioned, or of
\* ExplicitlyAllowed, are the same name in two spellings: each has no
\* small letter.
C22_CaseInsensitive ==
    Parsed
        => LET res == inUse.res
           IN  /\ \A r \in Recasings :
                     LET other == cloudDatasourcesInUse(File(Recased(configFile.data, r))).res
                     IN  /\ other.Mentioned = res.Mentioned
                         /\ other.ExplicitlyAllowed = res.ExplicitlyAllowed
               /\ \A a, b \in Members(res.Mentioned) \cup Members(res.ExplicitlyAllowed) :
                     /\ SameName(a, b) => a = b
                     /\ \A i \in 1..Len(a) : \A k \in 1..Len(LowerCase) :
                           a[i] # LowerCase[k]

C22_Witness ==
    /\ Parsed
    /\ configFile.data.Datasource = {<<"m", "a", "a", "s">>}
    /\ configFile.data.Reporting = {}
    /\ configFile.data.DatasourceList = <<<<"M", "a", "a", "s">>, <<"M", "A", "A", "S">>>>
    /\ inUse.res.Mentioned = Slice(<<<<"M", "A", "A", "S">>>>)
    /\ inUse.res.ExplicitlyAllowed = Slice(<<<<"M", "A", "A", "S">>>>)
    /\ cloudDatasourcesInUse(File(CloudConfig({<<"M", "A", "A", "S">>}, {}, TRUE, <<<<"m", "a", "a", "s">>, <<"m", "a", "a", "s">>>>))).res
          = inUse.res

----------------------------------------------------------------------------
(* Properties of the boot-time sequence *)

\* C23 as stated: when the sequences of two callers interleave, each giving
\* RestrictCloudInit the state it got from CloudInitStatus, and whatever
\* cloud-init answers in between, the state that CloudInitStatus reports
\* once a marker file is written is the state that the first write of a
\* marker file established.
C23_FirstWriterWins ==
    boot.first # NoState => ReportedNow = {boot.first}

\* the restriction file appears while cloud-init.disabled was written first
RestrictionAfterDisable ==
    /\ boot.first = CloudInitDisabledPermanently
    /\ ~restrictFile.exists
    /\ restrictFile'.exists

\* the step is the RestrictCloudInit call of a caller that had got Done
StaleDoneRestricts ==
    /\ ret'.op = "restrict"
    /\ ret'.state = CloudInitDone
    /\ \E p \in Procs : /\ boot.pc[p] = "queried"
                         /\ boot.got[p] = CloudInitDone
                         /\ boot'.pc[p] = "idle"

\* C23, amended: when the first write of a marker file is that of the
\* restriction file, CloudInitStatus reports RestrictedBySnapd from then on,
\* whatever the other caller writes.  When it is that of cloud-init.disabled,
\* that file stays and CloudInitStatus reports DisabledPermanently, until
\* a caller that had got Done before writes the restriction file, from when
\* on RestrictedBySnapd is reported: no other step makes that file then.
C23_FirstRestrictionWins ==
    /\ [](boot.first = CloudInitRestrictedBySnapd
            => ReportedNow = {CloudInitRestrictedBySnapd})
    /\ [](boot.first = CloudInitDisabledPermanently
            => /\ disabledFile.exists
               /\ ReportedNow = IF restrictFile.exists
                                THEN {CloudInitRestrictedBySnapd}
                                ELSE {CloudInitDisabledPermanently})
    /\ [](boot.first = NoState
            => ~restrictFile.exists /\ ~disabledFile.exists)
    /\ [][RestrictionAfterDisable => StaleDoneRestricts]_vars

C23_Witness ==
    /\ boot.first = CloudInitRestrictedBySnapd
    /\ restrictFile.exists
    /\ disabledFile.exists
    /\ Restricting
    /\ ret.wrote = {"cloud-init.disabled"}
    /\ ret.before.restrictFile.exists

\* C24: from no marker file, when the sequences of the callers do not
\* overlap and each RestrictCloudInit call is given the state that the
\* CloudInitStatus call before it returned, the two marker files never
\* both exist; and a RestrictCloudInit call that returns nil has the action
\* "restrict" or "disable", and has written zzzz_snapd.cfg, and nothing
\* else, exactly for "restrict", and cloud-init.disabled, and nothing else,
\* exactly for "disable".
C24_AtMostOneMarker ==
    /\ ~(restrictFile.exists /\ disabledFile.exists)
    /\ (Restricting /\ ret.err = NoErr)
          => /\ ret.res.Action \in {"restrict", "disable"}
             /\ ret.res.Action = "restrict"
                   <=> (/\ "zzzz_snapd.cfg" \in ret.wrote
                        /\ restrictFile.exists
                        /\ ~ret.before.restrictFile.exists)
             /\ ret.res.Action = "disable"
                   <=> (/\ "cloud-init.disabled" \in ret.wrote
                        /\ disabledFile.exists
                        /\ ~ret.before.disabledFile.exists)
             /\ ret.res.Action = "restrict"
                   => disabledFile = ret.before.disabledFile
             /\ ret.res.Action = "disable"
                   => restrictFile = ret.before.restrictFile

C24_Witness ==
    /\ Restricting
    /\ ret.before.restricted
    /\ ret.state = CloudInitDisabledPermanently
    /\ ret.err = ErrAlreadyDisabled
    /\ disabledFile.exists
    /\ ~restrictFile.exists
    /\ \A p \in Procs : boot.pc[p] = "idle"

----------------------------------------------------------------------------
(* Properties of configureCloudInit when the gadget's cloud.conf is bad *)

\* C25: with AllowCloudInit true and a cloud.conf in the gadget that
\* cloudDatasourcesInUse cannot parse, configureCloudInit returns an error,
\* and it has written neither 80_device_gadget.cfg nor any file of
\* ubuntu-seed: etc/cloud/cloud.cfg.d holds what it held before, for every
\* grade, dangerous included.
C25_BadGadgetInstallsNothing ==
    (/\ InstallCall /\ Allowed
     /\ gadgetConf.exists
     /\ cloudDatasourcesInUse(gadgetConf).err # NoErr)
        => /\ ~Succeeded
           /\ installRet.log = <<>>
           /\ target.cfgd = installRet.before.cfgd
           /\ target.disabled = installRet.before.disabled

C25_Witness ==
    /\ InstallCall /\ Allowed /\ TargetGiven /\ SeedGiven
    /\ gadgetConf = File(NotYaml)
    /\ installRet.grade = ModelDangerous
    /\ SeedCfgNames # {}
    /\ installRet.err = ErrUnmarshal
    /\ installRet.before = EmptyTarget
    /\ target.cfgd = <<>>
    /\ CloudCfgDir \in target.dirs

====
